---------------------------- MODULE Spec2Model ----------------------------
(***************************************************************************)
(* Greatland Gold DCF valuation scripts (ggp-dcf-app): the 5-year GBP      *)
(* model, the 10-year model and the 20-year model with its sensitivity     *)
(* grid.                                                                   *)
(*                                                                         *)
(* Numbers.  The scripts compute in Python floats.  The model computes the *)
(* same expressions, in the same order, over exact rationals, so that an   *)
(* equality or an ordering between two results is decided by the           *)
(* arithmetic and not by a rounding.  A rational is a record               *)
(*       [n |-> N, e |-> E, t |-> T, d |-> D]                              *)
(* standing for  N / (10^E * wn^T * D)  where N is an arbitrary-precision  *)
(* integer, and wn is the numerator of 1 + wacc of the run at hand.        *)
(*                                                                         *)
(* Units.  Ounces, currency amounts and share counts are held in           *)
(* thousands: every sidebar widget for them steps in multiples of 1000,    *)
(* so no admissible input is lost, and (price per oz) * (thousand oz) is   *)
(* a currency amount in thousands.  Prices per ounce and per share are in  *)
(* units.                                                                  *)
(***************************************************************************)
EXTENDS Integers, Sequences, FiniteSets, TLC

(***************************************************************************)
(* Arbitrary-precision integers: sign and magnitude, the magnitude a       *)
(* little-endian sequence of limbs in 0..Base-1 with no leading zero limb. *)
(***************************************************************************)
Base == 100 * 100

Max(a, b) == IF a >= b THEN a ELSE b

Min(a, b) == IF a <= b THEN a ELSE b

Limb(s, i) == IF i >= 1 /\ i <= Len(s) THEN s[i] ELSE 0

RECURSIVE MagTrim(_)
MagTrim(s) ==
    IF s = <<>> THEN <<>>
    ELSE IF s[Len(s)] = 0 THEN MagTrim(SubSeq(s, 1, Len(s) - 1))
    ELSE s

RECURSIVE MagFromNat(_)
MagFromNat(k) ==
    IF k = 0 THEN <<>> ELSE <<k % Base>> \o MagFromNat(k \div Base)

RECURSIVE MagCmpAt(_, _, _)
MagCmpAt(a, b, i) ==
    IF i = 0 THEN 0
    ELSE IF a[i] < b[i] THEN -1
    ELSE IF a[i] > b[i] THEN 1
    ELSE MagCmpAt(a, b, i - 1)

MagCmp(a, b) ==
    IF Len(a) < Len(b) THEN -1
    ELSE IF Len(a) > Len(b) THEN 1
    ELSE MagCmpAt(a, b, Len(a))

RECURSIVE MagAddAt(_, _, _, _)
MagAddAt(a, b, i, carry) ==
    IF i > Len(a) /\ i > Len(b)
    THEN (IF carry = 0 THEN <<>> ELSE <<carry>>)
    ELSE LET s == Limb(a, i) + Limb(b, i) + carry
         IN  <<s % Base>> \o MagAddAt(a, b, i + 1, s \div Base)

MagAdd(a, b) == MagAddAt(a, b, 1, 0)

RECURSIVE MagSubAt(_, _, _, _)
MagSubAt(a, b, i, borrow) ==
    IF i > Len(a) THEN <<>>
    ELSE LET s == a[i] - Limb(b, i) - borrow
         IN  IF s < 0
             THEN <<s + Base>> \o MagSubAt(a, b, i + 1, 1)
             ELSE <<s>> \o MagSubAt(a, b, i + 1, 0)

\* a - b for magnitudes with a >= b
MagSub(a, b) == MagTrim(MagSubAt(a, b, 1, 0))

RECURSIVE MagColumn(_, _, _, _)
MagColumn(a, b, k, i) ==
    IF i > Len(a) \/ i > k THEN 0
    ELSE Limb(a, i) * Limb(b, k - i + 1) + MagColumn(a, b, k, i + 1)

RECURSIVE MagMulAt(_, _, _, _)
MagMulAt(a, b, k, carry) ==
    IF k > Len(a) + Len(b) THEN <<>>
    ELSE LET s == MagColumn(a, b, k, Max(1, k - Len(b) + 1)) + carry
         IN  <<s % Base>> \o MagMulAt(a, b, k + 1, s \div Base)

MagMul(a, b) ==
    IF a = <<>> \/ b = <<>> THEN <<>> ELSE MagTrim(MagMulAt(a, b, 1, 0))

BigOf(neg, mag) == [neg |-> neg /\ mag # <<>>, mag |-> mag]

BigFromInt(i) == IF i < 0 THEN BigOf(TRUE, MagFromNat(-i)) ELSE BigOf(FALSE, MagFromNat(i))

BigNeg(a) == BigOf(~a.neg, a.mag)

BigAdd(a, b) ==
    IF a.neg = b.neg THEN BigOf(a.neg, MagAdd(a.mag, b.mag))
    ELSE IF MagCmp(a.mag, b.mag) >= 0 THEN BigOf(a.neg, MagSub(a.mag, b.mag))
    ELSE BigOf(b.neg, MagSub(b.mag, a.mag))

BigSub(a, b) == BigAdd(a, BigNeg(b))

BigMul(a, b) == BigOf(a.neg # b.neg, MagMul(a.mag, b.mag))

BigSign(a) == IF a.mag = <<>> THEN 0 ELSE IF a.neg THEN -1 ELSE 1

\* -1, 0 or 1 as a < b, a = b, a > b
BigCmp(a, b) == BigSign(BigSub(a, b))

\* b^k by repeated squaring
RECURSIVE BigPow(_, _)
BigPow(b, k) ==
    IF k = 0 THEN BigFromInt(1)
    ELSE IF k % 2 = 0
         THEN LET h == BigPow(b, k \div 2) IN BigMul(h, h)
    ELSE BigMul(BigPow(b, k - 1), BigFromInt(b))


(***************************************************************************)
(* Exact rationals  n / (10^e * w^t * d).  w, the numerator of 1 + wacc,   *)
(* is passed to the operators that have to bring two values to a common    *)
(* power of it.                                                            *)
(***************************************************************************)
QDec(i, e) == [n |-> BigFromInt(i), e |-> e, t |-> 0, d |-> 1]

QInt(i) == QDec(i, 0)

\* a * b^k
BigTimesPow(a, b, k) == IF k = 0 THEN a ELSE BigMul(a, BigPow(b, k))

\* the numerator of a over the denominator 10^e * w^t * a.d  (e >= a.e, t >= a.t)
QScale(w, a, e, t) == BigTimesPow(BigTimesPow(a.n, 10, e - a.e), w, t - a.t)

QNeg(a) == [a EXCEPT !.n = BigNeg(a.n)]

QAdd(w, a, b) ==
    LET e == Max(a.e, b.e)
        t == Max(a.t, b.t)
    IN  IF a.d = b.d
        THEN [n |-> BigAdd(QScale(w, a, e, t), QScale(w, b, e, t)),
              e |-> e, t |-> t, d |-> a.d]
        ELSE [n |-> BigAdd(BigMul(QScale(w, a, e, t), BigFromInt(b.d)),
                           BigMul(QScale(w, b, e, t), BigFromInt(a.d))),
              e |-> e, t |-> t, d |-> a.d * b.d]

QSub(w, a, b) == QAdd(w, a, QNeg(b))

QMul(a, b) == [n |-> BigMul(a.n, b.n), e |-> a.e + b.e, t |-> a.t + b.t, d |-> a.d * b.d]

\* a / k for an integer k # 0
QDivInt(a, k) ==
    IF k > 0 THEN [a EXCEPT !.d = a.d * k]
    ELSE [a EXCEPT !.n = BigNeg(a.n), !.d = a.d * (-k)]

\* a / (num/den)^k, where num is the w of the run (num # 0, den > 0)
QDivPow(a, den, k) == [a EXCEPT !.n = BigTimesPow(a.n, den, k), !.t = a.t + k]

\* the sign of w^t
PowSign(w, t) == IF w < 0 /\ t % 2 = 1 THEN -1 ELSE 1

\* -1, 0 or 1 as a < b, a = b, a > b
QCmp(w, a, b) ==
    LET e  == Max(a.e, b.e)
        t  == Max(a.t, b.t)
        sa == QScale(w, a, e, t)
        sb == QScale(w, b, e, t)
    IN  PowSign(w, t) *
        (IF a.d = b.d THEN BigCmp(sa, sb)
         ELSE BigCmp(BigMul(sa, BigFromInt(b.d)), BigMul(sb, BigFromInt(a.d))))

QEq(w, a, b) == QCmp(w, a, b) = 0

QLe(w, a, b) == QCmp(w, a, b) <= 0

QLt(w, a, b) == QCmp(w, a, b) < 0

\* Python's max(a, b): the first argument unless the second is larger
QMax(w, a, b) == IF QLt(w, a, b) THEN b ELSE a

QSign(w, a) == QCmp(w, a, QInt(0))

\* Python's sum(): 0 + xs[1] + xs[2] + ... from the left
RECURSIVE QSumTo(_, _, _)
QSumTo(w, xs, k) == IF k = 0 THEN QInt(0) ELSE QAdd(w, QSumTo(w, xs, k - 1), xs[k])

QSum(w, xs) == QSumTo(w, xs, Len(xs))

\* floor(a / b) for big integers a >= 0, b > 0 whose quotient lies in lo..hi
RECURSIVE BigQuotIn(_, _, _, _)
BigQuotIn(a, b, lo, hi) ==
    IF lo = hi THEN lo
    ELSE LET mid == (lo + hi + 1) \div 2
         IN  IF BigCmp(BigMul(b, BigFromInt(mid)), a) <= 0
             THEN BigQuotIn(a, b, mid, hi)
             ELSE BigQuotIn(a, b, lo, mid - 1)

MaxQuot == 1024 * 1024 * 1024

\* round(a * 10^places) to the nearest integer, ties to the even one (w # 0)
QRound(w, a, places) ==
    LET absw == IF w < 0 THEN -w ELSE w
        neg  == (BigSign(a.n) * PowSign(w, a.t)) < 0
        num  == BigTimesPow(BigOf(FALSE, a.n.mag), 10, places)
        den  == BigTimesPow(BigTimesPow(BigFromInt(a.d), 10, a.e), absw, a.t)
        q    == BigQuotIn(num, den, 0, MaxQuot)
        rem2 == BigMul(BigSub(num, BigMul(den, BigFromInt(q))), BigFromInt(2))
        c    == BigCmp(rem2, den)
        r    == IF c > 0 \/ (c = 0 /\ q % 2 = 1) THEN q + 1 ELSE q
    IN  IF neg THEN -r ELSE r

(***************************************************************************)
(* The programs' state.  The three scripts share most variable names; a    *)
(* run is of one script, named by variant.  A scalar the script has not    *)
(* assigned yet is Unset, an assigned one is Some(value).                  *)
(***************************************************************************)
VARIABLES
    variant,              \* "v5" | "v10" | "v20": the script that runs
    inp,                  \* the sidebar inputs of the run
    pc,                   \* the place of the run in the script
    year,                 \* the loop variable of the loop at pc
    productions, aiscs, capexes, fcfs, pvs,
    enterprise_value, equity_value, value_per_share_aud, value_per_share_gbp,
    gold_price_gbp, aisc_gbp, margin_per_oz, operating_cf, annual_fcf,
    fcf_list, discounted_list, equity_value_gbp,
    cell,                 \* <<index into gold_options, index into prod_options>>
    alt_prods, alt_fcfs, alt_pvs, vps_tmp_aud, row, sens_rows,
    cell_vps,             \* history: vps_tmp_aud of every cell computed so far
    shown,                \* the results the page has displayed so far
    err                   \* the exception that ended the run, or "none"

seriesVars == <<productions, aiscs, capexes, fcfs>>

valueVars == <<enterprise_value, equity_value, value_per_share_aud, value_per_share_gbp>>

coreVars5 == <<gold_price_gbp, aisc_gbp, margin_per_oz, operating_cf, annual_fcf>>

listVars5 == <<fcf_list, discounted_list>>

gridVars == <<cell, alt_prods, alt_fcfs, alt_pvs, vps_tmp_aud, row, sens_rows, cell_vps>>

vars == <<variant, inp, pc, year, seriesVars, pvs, valueVars, coreVars5, listVars5,
          equity_value_gbp, gridVars, shown, err>>

Unset == <<>>

Some(v) == <<v>>

Val(s) == s[1]

Last(s) == s[Len(s)]

\* 1 + wacc = Wn / Wd
Wn(i) == i.wacc.num + i.wacc.den

Wd(i) == i.wacc.den

(***************************************************************************)
(* The 5-year model.                                                       *)
(***************************************************************************)
\* gold_price_gbp, aisc_gbp, margin_per_oz, operating_cf, annual_fcf
GoldPriceGbp5(i) == QMul(QInt(i.gold_price_usd), i.usd_to_gbp)

\* mutant: the AISC left in USD
AiscGbp5Unconverted(i) == QInt(i.aisc_usd)

AiscGbp5(i) == QMul(QInt(i.aisc_usd), i.usd_to_gbp)

MarginPerOz5(w, gold, aisc) == QSub(w, gold, aisc)

OperatingCf5(i, margin) == QMul(margin, QInt(i.production_oz))

AnnualFcf5(w, i, opcf) ==
    QSub(w, QSub(w, opcf, QInt(i.corp_costs_gbp)), QInt(i.growth_capex_gbp))

\* fcf_t_total of year t
FcfTotal5(w, i, fcf, t) ==
    IF t = i.years THEN QAdd(w, fcf, QMul(fcf, i.terminal_multiple)) ELSE fcf

\* pv_t = fcf_t_total / ((1 + wacc) ** t)
Pv5(i, total, t) == QDivPow(total, Wd(i), t)

Fail(e) ==
    /\ pc' = "failed"
    /\ err' = e

Core5 ==
    /\ variant = "v5" /\ pc = "core"
    /\ LET w == Wn(inp) IN
       /\ gold_price_gbp' = Some(GoldPriceGbp5(inp))
       /\ aisc_gbp' = Some(AiscGbp5(inp))
       /\ margin_per_oz' = Some(MarginPerOz5(w, GoldPriceGbp5(inp), AiscGbp5(inp)))
       /\ operating_cf' = Some(OperatingCf5(inp, Val(margin_per_oz')))
       /\ annual_fcf' = Some(AnnualFcf5(w, inp, Val(operating_cf')))
    /\ pc' = "forecast"
    /\ year' = 1
    /\ UNCHANGED <<variant, inp, seriesVars, pvs, valueVars, listVars5,
                   equity_value_gbp, gridVars, shown, err>>

ForecastStep5 ==
    /\ variant = "v5" /\ pc = "forecast"
    /\ IF Wn(inp) = 0
       THEN /\ Fail("ZeroDivisionError")
            /\ UNCHANGED <<year, listVars5>>
       ELSE /\ LET total == FcfTotal5(Wn(inp), inp, Val(annual_fcf), year) IN
               /\ fcf_list' = Append(fcf_list, total)
               /\ discounted_list' = Append(discounted_list, Pv5(inp, total, year))
            /\ IF year = inp.years
               THEN pc' = "value" /\ year' = year
               ELSE pc' = pc /\ year' = year + 1
            /\ err' = err
    /\ UNCHANGED <<variant, inp, seriesVars, pvs, valueVars, coreVars5,
                   equity_value_gbp, gridVars, shown>>

Value5 ==
    /\ variant = "v5" /\ pc = "value"
    /\ IF inp.shares_out = 0
       THEN /\ Fail("ZeroDivisionError")
            /\ equity_value_gbp' = Some(QSum(Wn(inp), discounted_list))
            /\ UNCHANGED value_per_share_gbp
       ELSE /\ equity_value_gbp' = Some(QSum(Wn(inp), discounted_list))
            /\ value_per_share_gbp' = Some(QDivInt(Val(equity_value_gbp'), inp.shares_out))
            /\ pc' = "display"
            /\ err' = err
    /\ UNCHANGED <<variant, inp, year, seriesVars, pvs, enterprise_value, equity_value,
                   value_per_share_aud, coreVars5, listVars5, gridVars, shown>>

Display5 ==
    /\ variant = "v5" /\ pc = "display"
    /\ shown' = shown \cup {"gold_price", "annual_fcf", "equity_value", "value_per_share",
                            "table", "chart"}
    /\ pc' = "done"
    /\ UNCHANGED <<variant, inp, year, seriesVars, pvs, valueVars, coreVars5, listVars5,
                   equity_value_gbp, gridVars, err>>


(***************************************************************************)
(* The 10-year model.                                                      *)
(***************************************************************************)
Horizon10 == 10

AiscFloor10 == 1600

\* production path: prod of `yr`, given the productions of the years before
Prod10(i, prods, yr) ==
    IF yr = 1 THEN QInt(i.production_y1)
    ELSE IF yr <= 5 THEN QMul(Last(prods), QAdd(1, QInt(1), i.production_growth))
    ELSE Last(prods)

\* AISC path
Aisc10(w, i, as, yr) ==
    IF yr = 1 THEN QInt(i.aisc_y1)
    ELSE IF yr <= 5
         THEN QMax(w, QSub(w, Last(as), QInt(i.aisc_improvement)), QInt(AiscFloor10))
    ELSE Last(as)

\* mutant: 25% of the gap a year, as the source's comment has it
Capex10Quarter(w, i, cs, yr) ==
    IF yr = 1 THEN QInt(i.capex_y1)
    ELSE IF yr <= 4
         THEN LET gap   == QSub(w, cs[1], QInt(i.capex_decline_to))
                  capex == IF QSign(w, gap) > 0
                           THEN QSub(w, Last(cs), QMul(QDec(25, 2), gap))
                           ELSE QInt(i.capex_decline_to)
              IN  IF QLt(w, capex, QInt(i.capex_decline_to))
                  THEN QInt(i.capex_decline_to)
                  ELSE capex
    ELSE QInt(i.capex_decline_to)

\* capex path: 0.33 of the year-1 gap a year for years 2-4, not below steady state
Capex10(w, i, cs, yr) ==
    IF yr = 1 THEN QInt(i.capex_y1)
    ELSE IF yr <= 4
         THEN LET gap   == QSub(w, cs[1], QInt(i.capex_decline_to))
                  capex == IF QSign(w, gap) > 0
                           THEN QSub(w, Last(cs), QMul(QDec(33, 2), gap))
                           ELSE QInt(i.capex_decline_to)
              IN  IF QLt(w, capex, QInt(i.capex_decline_to))
                  THEN QInt(i.capex_decline_to)
                  ELSE capex
    ELSE QInt(i.capex_decline_to)

\* mutant: free cash flow floored at zero
Fcf10Clamped(w, i, aisc, prod, capex) ==
    LET margin_per_oz_ == QSub(w, QInt(i.gold_price_aud), aisc)
        operating_cf_  == QMul(margin_per_oz_, prod)
    IN  QMax(w, QSub(w, QSub(w, operating_cf_, QInt(i.corp_costs)), capex), QInt(0))

\* operating cash flow and fcf of a year
Fcf10(w, i, aisc, prod, capex) ==
    LET margin_per_oz_ == QSub(w, QInt(i.gold_price_aud), aisc)
        operating_cf_  == QMul(margin_per_oz_, prod)
    IN  QSub(w, QSub(w, operating_cf_, QInt(i.corp_costs)), capex)

\* total_in_year
Total10(w, i, fs, yr) ==
    IF yr = Horizon10
    THEN QAdd(w, fs[yr], QMul(Last(fs), i.terminal_multiple))
    ELSE fs[yr]

\* pv = total_in_year / ((1 + wacc) ** year)
Pv10(i, total, yr) == QDivPow(total, Wd(i), yr)

EnterpriseValue10(w, ps) == QSum(w, ps)

EquityValue10(w, i, ev) ==
    QSub(w, QAdd(w, ev, QInt(i.cash_balance)), QInt(i.deferred_liability))

ValuePerShare10(i, eq) == QDivInt(eq, i.shares_out)

PathStep10 ==
    /\ variant = "v10" /\ pc = "paths"
    /\ LET w == Wn(inp) IN
       /\ productions' = Append(productions, Prod10(inp, productions, year))
       /\ aiscs' = Append(aiscs, Aisc10(w, inp, aiscs, year))
       /\ capexes' = Append(capexes, Capex10(w, inp, capexes, year))
       /\ fcfs' = Append(fcfs, Fcf10(w, inp, Last(aiscs'), Last(productions'), Last(capexes')))
    /\ IF year = Horizon10
       THEN pc' = "discount" /\ year' = 1
       ELSE pc' = pc /\ year' = year + 1
    /\ UNCHANGED <<variant, inp, pvs, valueVars, coreVars5, listVars5,
                   equity_value_gbp, gridVars, shown, err>>

DiscountStep10 ==
    /\ variant = "v10" /\ pc = "discount"
    /\ IF Wn(inp) = 0
       THEN /\ Fail("ZeroDivisionError")
            /\ UNCHANGED <<year, pvs>>
       ELSE /\ pvs' = Append(pvs, Pv10(inp, Total10(Wn(inp), inp, fcfs, year), year))
            /\ IF year = Horizon10
               THEN pc' = "value" /\ year' = year
               ELSE pc' = pc /\ year' = year + 1
            /\ err' = err
    /\ UNCHANGED <<variant, inp, seriesVars, valueVars, coreVars5, listVars5,
                   equity_value_gbp, gridVars, shown>>

Value10 ==
    /\ variant = "v10" /\ pc = "value"
    /\ LET w == Wn(inp) IN
       /\ enterprise_value' = Some(EnterpriseValue10(w, pvs))
       /\ equity_value' = Some(EquityValue10(w, inp, Val(enterprise_value')))
       /\ IF inp.shares_out = 0
          THEN /\ Fail("ZeroDivisionError")
               /\ UNCHANGED <<value_per_share_aud, value_per_share_gbp>>
          ELSE /\ value_per_share_aud' = Some(ValuePerShare10(inp, Val(equity_value')))
               /\ value_per_share_gbp' = Some(QMul(Val(value_per_share_aud'), inp.aud_to_gbp))
               /\ pc' = "display"
               /\ err' = err
    /\ UNCHANGED <<variant, inp, year, seriesVars, pvs, coreVars5, listVars5,
                   equity_value_gbp, gridVars, shown>>

Display10 ==
    /\ variant = "v10" /\ pc = "display"
    /\ shown' = shown \cup {"enterprise_value", "equity_value", "value_per_share",
                            "value_per_share_gbp", "table", "chart"}
    /\ pc' = "done"
    /\ UNCHANGED <<variant, inp, year, seriesVars, pvs, valueVars, coreVars5, listVars5,
                   equity_value_gbp, gridVars, err>>


(***************************************************************************)
(* The 20-year model and its sensitivity grid.                             *)
(***************************************************************************)
Horizon20 == 20

AiscFloor20 == 1600

\* production: grow to yr5, flat to yr15, then -1%/yr
Prod20(i, prods, yr) ==
    IF yr = 1 THEN QInt(i.production_y1)
    ELSE IF yr <= 5 THEN QMul(Last(prods), QAdd(1, QInt(1), i.production_growth))
    ELSE IF yr <= 15 THEN Last(prods)
    ELSE QMul(Last(prods), QDec(99, 2))

\* AISC: improve to yr5, then flat
Aisc20(w, i, as, yr) ==
    IF yr = 1 THEN QInt(i.aisc_y1)
    ELSE IF yr <= 5
         THEN QMax(w, QSub(w, Last(as), QInt(i.aisc_improvement)), QInt(AiscFloor20))
    ELSE Last(as)

\* mutant: the linear decline without the floor at steady state
Capex20NoClip(w, i, yr) ==
    IF yr = 1 THEN QInt(i.capex_y1)
    ELSE IF yr <= 5
         THEN LET step == QDivInt(QSub(w, QInt(i.capex_y1), QInt(i.capex_decline_to)), 5)
              IN  QSub(w, QInt(i.capex_y1), QMul(step, QInt(yr - 1)))
    ELSE QInt(i.capex_decline_to)

\* capex: high early, step down to steady from yr6
Capex20(w, i, yr) ==
    IF yr = 1 THEN QInt(i.capex_y1)
    ELSE IF yr <= 5
         THEN LET step == QDivInt(QSub(w, QInt(i.capex_y1), QInt(i.capex_decline_to)), 5)
              IN  QMax(w, QSub(w, QInt(i.capex_y1), QMul(step, QInt(yr - 1))),
                       QInt(i.capex_decline_to))
    ELSE QInt(i.capex_decline_to)

\* FCF in AUD
Fcf20(w, i, aisc, prod, capex) ==
    LET margin        == QSub(w, QInt(i.gold_price_aud), aisc)
        operating_cf_ == QMul(margin, prod)
    IN  QSub(w, QSub(w, operating_cf_, QInt(i.corp_costs)), capex)

\* mutant: the terminal value added to every year's cash flow
Total20EveryYear(w, i, fs, yr) == QAdd(w, fs[yr], QMul(Last(fs), i.terminal_multiple))

\* total: the terminal value is added at year 20
Total20(w, i, fs, yr) ==
    IF yr = Horizon20
    THEN QAdd(w, fs[yr], QMul(Last(fs), i.terminal_multiple))
    ELSE fs[yr]

Pv20(i, total, yr) == QDivPow(total, Wd(i), yr)

EnterpriseValue20(w, ps) == QSum(w, ps)

\* mutant: equity value floored at zero
EquityValue20Floored(w, i, ev) ==
    QMax(w, QSub(w, QAdd(w, ev, QInt(i.cash_balance)), QInt(i.deferred_liability)), QInt(0))

EquityValue20(w, i, ev) ==
    QSub(w, QAdd(w, ev, QInt(i.cash_balance)), QInt(i.deferred_liability))

ValuePerShare20(i, eq) == QDivInt(eq, i.shares_out)

PathStep20 ==
    /\ variant = "v20" /\ pc = "paths"
    /\ LET w == Wn(inp) IN
       /\ productions' = Append(productions, Prod20(inp, productions, year))
       /\ aiscs' = Append(aiscs, Aisc20(w, inp, aiscs, year))
       /\ capexes' = Append(capexes, Capex20(w, inp, year))
       /\ fcfs' = Append(fcfs, Fcf20(w, inp, Last(aiscs'), Last(productions'), Last(capexes')))
    /\ IF year = Horizon20
       THEN pc' = "discount" /\ year' = 1
       ELSE pc' = pc /\ year' = year + 1
    /\ UNCHANGED <<variant, inp, pvs, valueVars, coreVars5, listVars5,
                   equity_value_gbp, gridVars, shown, err>>

DiscountStep20 ==
    /\ variant = "v20" /\ pc = "discount"
    /\ IF Wn(inp) = 0
       THEN /\ Fail("ZeroDivisionError")
            /\ UNCHANGED <<year, pvs>>
       ELSE /\ pvs' = Append(pvs, Pv20(inp, Total20(Wn(inp), inp, fcfs, year), year))
            /\ IF year = Horizon20
               THEN pc' = "value" /\ year' = year
               ELSE pc' = pc /\ year' = year + 1
            /\ err' = err
    /\ UNCHANGED <<variant, inp, seriesVars, valueVars, coreVars5, listVars5,
                   equity_value_gbp, gridVars, shown>>

Value20 ==
    /\ variant = "v20" /\ pc = "value"
    /\ LET w == Wn(inp) IN
       /\ enterprise_value' = Some(EnterpriseValue20(w, pvs))
       /\ equity_value' = Some(EquityValue20(w, inp, Val(enterprise_value')))
       /\ IF inp.shares_out = 0
          THEN /\ Fail("ZeroDivisionError")
               /\ UNCHANGED <<value_per_share_aud, value_per_share_gbp>>
          ELSE /\ value_per_share_aud' = Some(ValuePerShare20(inp, Val(equity_value')))
               /\ value_per_share_gbp' = Some(QDivInt(Val(value_per_share_aud'), 2))
               /\ pc' = "display"
               /\ err' = err
    /\ UNCHANGED <<variant, inp, year, seriesVars, pvs, coreVars5, listVars5,
                   equity_value_gbp, gridVars, shown>>

Display20 ==
    /\ variant = "v20" /\ pc = "display"
    /\ shown' = shown \cup {"enterprise_value", "equity_value", "value_per_share",
                            "table", "chart"}
    /\ pc' = "grid"
    /\ UNCHANGED <<variant, inp, year, seriesVars, pvs, valueVars, coreVars5, listVars5,
                   equity_value_gbp, gridVars, err>>

prod_options == <<250, 300, 350, 400, 450, 500>>

gold_options == <<4200, 4500, 4800, 5200, 5500, 6000>>

\* mutant: the tail decline starting after year 10 instead of year 15
RECURSIVE AltProdsEarlyDecline(_, _, _)
AltProdsEarlyDecline(i, prod_assump, yr) ==
    IF yr = 0 THEN <<>>
    ELSE LET before == AltProdsEarlyDecline(i, prod_assump, yr - 1)
         IN  Append(before,
                    IF yr = 1 THEN QInt(prod_assump)
                    ELSE IF yr <= 5
                         THEN QMul(Last(before), QAdd(1, QInt(1), i.production_growth))
                    ELSE IF yr <= 10 THEN Last(before)
                    ELSE QMul(Last(before), QDec(99, 2)))

\* build alt 20-yr production for this combo: the productions of years 1..yr
RECURSIVE AltProds(_, _, _)
AltProds(i, prod_assump, yr) ==
    IF yr = 0 THEN <<>>
    ELSE LET before == AltProds(i, prod_assump, yr - 1)
         IN  Append(before,
                    IF yr = 1 THEN QInt(prod_assump)
                    ELSE IF yr <= 5
                         THEN QMul(Last(before), QAdd(1, QInt(1), i.production_growth))
                    ELSE IF yr <= 15 THEN Last(before)
                    ELSE QMul(Last(before), QDec(99, 2)))

\* mutant: the margin taken as cost minus price
AltFcfsFlippedMargin(w, i, gold_assump, prods, as, cs) ==
    [k \in 1..Horizon20 |->
        LET margin_tmp == QSub(w, as[k], QInt(gold_assump))
            op_cf_tmp  == QMul(margin_tmp, prods[k])
        IN  QSub(w, QSub(w, op_cf_tmp, QInt(i.corp_costs)), cs[k])]

\* reuse aiscs and capexes from main run
AltFcfs(w, i, gold_assump, prods, as, cs) ==
    [k \in 1..Horizon20 |->
        LET margin_tmp == QSub(w, QInt(gold_assump), as[k])
            op_cf_tmp  == QMul(margin_tmp, prods[k])
        IN  QSub(w, QSub(w, op_cf_tmp, QInt(i.corp_costs)), cs[k])]

\* discount
AltPvs(w, i, fs) ==
    [k \in 1..Horizon20 |->
        LET total_tmp == QAdd(w, fs[k],
                              IF k = 20 THEN QMul(Last(fs), i.terminal_multiple)
                              ELSE QInt(0))
        IN  QDivPow(total_tmp, Wd(i), k)]

\* vps_tmp_aud
AltVps(w, i, ps) ==
    LET ev_tmp_aud == QSum(w, ps)
        eq_tmp_aud == QSub(w, QAdd(w, ev_tmp_aud, QInt(i.cash_balance)),
                           QInt(i.deferred_liability))
    IN  QDivInt(eq_tmp_aud, i.shares_out)

\* round(vps_tmp_gbp, 2), in hundredths
AltShown(w, vps) == QRound(w, QDivInt(vps, 2), 2)

GridCell20 ==
    /\ variant = "v20" /\ pc = "grid"
    /\ LET w           == Wn(inp)
           gold_assump == gold_options[cell[1]]
           prod_assump == prod_options[cell[2]]
           started     == IF cell[2] = 1 THEN [gold |-> gold_assump, vals |-> <<>>] ELSE row
       IN
       /\ alt_prods' = AltProds(inp, prod_assump, Horizon20)
       /\ alt_fcfs' = AltFcfs(w, inp, gold_assump, alt_prods', aiscs, capexes)
       /\ alt_pvs' = AltPvs(w, inp, alt_fcfs')
       /\ vps_tmp_aud' = Some(AltVps(w, inp, alt_pvs'))
       /\ row' = [started EXCEPT !.vals = Append(@, AltShown(w, Val(vps_tmp_aud')))]
       /\ cell_vps' = cell_vps @@ (cell :> Val(vps_tmp_aud'))
       /\ IF cell[2] = Len(prod_options)
          THEN /\ sens_rows' = Append(sens_rows, row')
               /\ IF cell[1] = Len(gold_options)
                  THEN pc' = "griddisplay" /\ cell' = cell
                  ELSE pc' = pc /\ cell' = <<cell[1] + 1, 1>>
          ELSE /\ sens_rows' = sens_rows
               /\ pc' = pc
               /\ cell' = <<cell[1], cell[2] + 1>>
    /\ UNCHANGED <<variant, inp, year, seriesVars, pvs, valueVars, coreVars5, listVars5,
                   equity_value_gbp, shown, err>>

GridDisplay20 ==
    /\ variant = "v20" /\ pc = "griddisplay"
    /\ shown' = shown \cup {"sensitivity"}
    /\ pc' = "done"
    /\ UNCHANGED <<variant, inp, year, seriesVars, pvs, valueVars, coreVars5, listVars5,
                   equity_value_gbp, gridVars, err>>


(***************************************************************************)
(* Inputs.  Each set holds values the sidebar widget of the field accepts  *)
(* (its min, max and step), in the units stated at the top.                *)
(***************************************************************************)
\* slider value / 100 as a fraction in lowest terms
Pct10 == [num |-> 1, den |-> 10]

\* the largest "Forecast years" the 5-year model is run with (slider: 3..15)
MaxYears5 == 5

\* production growth is 0%, 2%, ... , 2 * GrowthSteps % (widget: 0.0..10.0)
GrowthSteps == 1

\* Year-1 AISC is 1500, 2000, ..., 1500 + 500 * AiscSteps (widget: 1500..4000)
AiscSteps == 4

\* AISC improvement is 0, 250, ..., 250 * ImprovementSteps (widget: 0..500)
ImprovementSteps == 1

\* capex values are 0, 150m, ..., 150m * CapexSteps (widget: 0..1000m)
CapexSteps == 2

Inputs5 ==
    [production_oz: {500}, gold_price_usd: {4000}, aisc_usd: {2000, 5000},
     usd_to_gbp: {QDec(79, 2)}, corp_costs_gbp: {90000}, growth_capex_gbp: {150000},
     years: 3..MaxYears5, wacc: {Pct10}, terminal_multiple: {QDec(40, 1)},
     shares_out: {670750}]

InputsBase ==
    [production_y1: {285}, production_growth: {QDec(2 * k, 2) : k \in 0..GrowthSteps},
     gold_price_aud: {2000, 4800}, aisc_y1: {2600, 4000}, aisc_improvement: {50},
     corp_costs: {120000}, capex_y1: {368000}, capex_decline_to: {150000},
     wacc: {Pct10}, terminal_multiple: {QDec(40, 1)},
     cash_balance: {750000}, deferred_liability: {115000},
     shares_out: {670700}, aud_to_gbp: {QDec(52, 2)}]

\* every Year-1 AISC / improvement / capex combination of the bounds, other inputs at
\* their defaults
InputsPaths ==
    [production_y1: {285}, production_growth: {QDec(2, 2)},
     gold_price_aud: {4800},
     aisc_y1: {2600} \cup {1500 + 500 * k : k \in 0..AiscSteps},
     aisc_improvement: {50} \cup {250 * k : k \in 0..ImprovementSteps},
     corp_costs: {120000},
     capex_y1: {368000} \cup {150000 * k : k \in 0..CapexSteps},
     capex_decline_to: {150000 * k : k \in 0..CapexSteps},
     wacc: {Pct10}, terminal_multiple: {QDec(40, 1)},
     cash_balance: {750000}, deferred_liability: {115000},
     shares_out: {670700}, aud_to_gbp: {QDec(52, 2)}]

\* inputs the sidebar never supplies: no shares, a discount rate of -100% or -200%
InputsDegenerate ==
    [production_y1: {285}, production_growth: {QDec(2, 2)},
     gold_price_aud: {4800}, aisc_y1: {2600}, aisc_improvement: {50},
     corp_costs: {120000}, capex_y1: {368000}, capex_decline_to: {150000},
     wacc: {Pct10, [num |-> -1, den |-> 1], [num |-> -2, den |-> 1]},
     terminal_multiple: {QDec(40, 1)},
     cash_balance: {750000}, deferred_liability: {115000},
     shares_out: {0, 670700}, aud_to_gbp: {QDec(52, 2)}]

InitWith(v, i) ==
    /\ variant = v
    /\ inp = i
    /\ pc = IF v = "v5" THEN "core" ELSE "paths"
    /\ year = 1
    /\ productions = <<>> /\ aiscs = <<>> /\ capexes = <<>> /\ fcfs = <<>> /\ pvs = <<>>
    /\ enterprise_value = Unset /\ equity_value = Unset
    /\ value_per_share_aud = Unset /\ value_per_share_gbp = Unset
    /\ gold_price_gbp = Unset /\ aisc_gbp = Unset /\ margin_per_oz = Unset
    /\ operating_cf = Unset /\ annual_fcf = Unset
    /\ fcf_list = <<>> /\ discounted_list = <<>> /\ equity_value_gbp = Unset
    /\ cell = <<1, 1>>
    /\ alt_prods = <<>> /\ alt_fcfs = <<>> /\ alt_pvs = <<>> /\ vps_tmp_aud = Unset
    /\ row = Unset /\ sens_rows = <<>> /\ cell_vps = <<>>
    /\ shown = {}
    /\ err = "none"

Init ==
    \/ \E i \in Inputs5 : InitWith("v5", i)
    \/ \E v \in {"v10", "v20"}, i \in InputsBase : InitWith(v, i)

InitPaths == \E v \in {"v10", "v20"}, i \in InputsPaths : InitWith(v, i)

InitDegenerate ==
    \/ \E i \in Inputs5, w \in {[num |-> -1, den |-> 1], [num |-> -2, den |-> 1]},
          sh \in {0, 670750} :
          InitWith("v5", [i EXCEPT !.wacc = w, !.shares_out = sh])
    \/ \E i \in Inputs5 : InitWith("v5", [i EXCEPT !.shares_out = 0])
    \/ \E v \in {"v10", "v20"}, i \in InputsDegenerate : InitWith(v, i)

Next ==
    \/ Core5 \/ ForecastStep5 \/ Value5 \/ Display5
    \/ PathStep10 \/ DiscountStep10 \/ Value10 \/ Display10
    \/ PathStep20 \/ DiscountStep20 \/ Value20 \/ Display20
    \/ GridCell20 \/ GridDisplay20

NextPaths == PathStep10 \/ PathStep20

Spec == Init /\ [][Next]_vars

SpecPaths == InitPaths /\ [][NextPaths]_vars

SpecDegenerate == InitDegenerate /\ [][Next]_vars


(***************************************************************************)
(* The main run of the 20-year model as a function of its inputs: the      *)
(* loops of PathStep20 and DiscountStep20 and the valuation of Value20,    *)
(* run to the end.                                                         *)
(***************************************************************************)
RECURSIVE MainPaths20(_, _)
MainPaths20(i, yr) ==
    IF yr = 0
    THEN [productions |-> <<>>, aiscs |-> <<>>, capexes |-> <<>>, fcfs |-> <<>>]
    ELSE LET b == MainPaths20(i, yr - 1)
             p == Prod20(i, b.productions, yr)
             a == Aisc20(Wn(i), i, b.aiscs, yr)
             c == Capex20(Wn(i), i, yr)
         IN  [productions |-> Append(b.productions, p),
              aiscs       |-> Append(b.aiscs, a),
              capexes     |-> Append(b.capexes, c),
              fcfs        |-> Append(b.fcfs, Fcf20(Wn(i), i, a, p, c))]

MainPvs20(i, fs) == [k \in 1..Horizon20 |-> Pv20(i, Total20(Wn(i), i, fs, k), k)]

MainVps20(i) ==
    ValuePerShare20(i, EquityValue20(Wn(i), i,
        EnterpriseValue20(Wn(i), MainPvs20(i, MainPaths20(i, Horizon20).fcfs))))

(***************************************************************************)
(* Vocabulary of the properties.                                           *)
(***************************************************************************)
W == Wn(inp)

QBig(b) == [n |-> b, e |-> 0, t |-> 0, d |-> 1]

\* pv * (1 + wacc)^t = total
DiscountedIs(pv, total, t) ==
    QEq(W, QMul(pv, QBig(BigPow(Wn(inp), t))), QMul(total, QBig(BigPow(Wd(inp), t))))

SeqEq(xs, ys) == Len(xs) = Len(ys) /\ \A k \in 1..Len(xs) : QEq(W, xs[k], ys[k])

Horizon == IF variant = "v10" THEN Horizon10 ELSE IF variant = "v20" THEN Horizon20 ELSE inp.years

\* the gold price and starting production of the grid cell computed last
HasCell == variant = "v20" /\ vps_tmp_aud # Unset

CellGold == row.gold

CellProd == prod_options[Len(row.vals)]

Accepted(i) ==
    /\ i.aisc_y1 \in 1500..4000 /\ i.aisc_improvement \in 0..500
    /\ i.capex_y1 \in 0..1000000 /\ i.capex_decline_to \in 0..1000000

(***************************************************************************)
(* C1.  In every variant and in every grid cell the terminal value         *)
(* fcf[last] * terminal_multiple is added to the final year's cash flow    *)
(* only: the discounted amount of a year t < horizon is                    *)
(* fcf[t] / (1 + rate)^t, that of the horizon year is                      *)
(* (fcf[h] + fcf[h] * terminal_multiple) / (1 + rate)^h, and enterprise    *)
(* value is the sum of exactly these amounts.                              *)
(***************************************************************************)
WithTerminal(fs, t, h) ==
    IF t = h THEN QAdd(W, fs[h], QMul(fs[h], inp.terminal_multiple)) ELSE fs[t]

C1_TerminalValueOnlyInFinalYear ==
    /\ variant \in {"v10", "v20"} =>
        /\ \A t \in 1..Len(pvs) : DiscountedIs(pvs[t], WithTerminal(fcfs, t, Horizon), t)
        /\ enterprise_value # Unset => QEq(W, Val(enterprise_value), QSum(W, pvs))
    /\ variant = "v5" =>
        /\ \A t \in 1..Len(discounted_list) :
              /\ DiscountedIs(discounted_list[t],
                              IF t = inp.years
                              THEN QAdd(W, Val(annual_fcf),
                                        QMul(Val(annual_fcf), inp.terminal_multiple))
                              ELSE Val(annual_fcf), t)
              /\ DiscountedIs(discounted_list[t], fcf_list[t], t)
        /\ equity_value_gbp # Unset =>
              QEq(W, Val(equity_value_gbp), QSum(W, discounted_list))
    /\ HasCell =>
        /\ \A t \in 1..Horizon20 :
              DiscountedIs(alt_pvs[t], WithTerminal(alt_fcfs, t, Horizon20), t)
        /\ QEq(W, QMul(Val(vps_tmp_aud), QInt(inp.shares_out)),
               QSub(W, QAdd(W, QSum(W, alt_pvs), QInt(inp.cash_balance)),
                    QInt(inp.deferred_liability)))

C1_Witness ==
    /\ variant = "v20" /\ pc = "done"
    /\ Len(pvs) = Horizon20 /\ QSign(W, fcfs[Horizon20]) # 0
    /\ HasCell /\ QSign(W, alt_fcfs[Horizon20]) # 0
    /\ ~QEq(W, QMul(fcfs[Horizon20], inp.terminal_multiple), QInt(0))


(***************************************************************************)
(* C3.  The concrete 5-year scenario: production 500,000 oz, gold 4000     *)
(* USD/oz, AISC 2000 USD/oz, FX 0.79, corporate costs 90,000,000, growth   *)
(* capex 150,000,000, WACC 10%, terminal multiple 4, 670,750,000 shares,   *)
(* 5 forecast years.  Amounts below are in thousands.                      *)
(***************************************************************************)
Scenario5 ==
    /\ variant = "v5"
    /\ inp.production_oz = 500 /\ inp.gold_price_usd = 4000 /\ inp.aisc_usd = 2000
    /\ inp.usd_to_gbp = QDec(79, 2)
    /\ inp.corp_costs_gbp = 90000 /\ inp.growth_capex_gbp = 150000
    /\ inp.wacc = Pct10 /\ inp.terminal_multiple = QDec(40, 1)
    /\ inp.shares_out = 670750 /\ inp.years = 5

Scenario5Gives(gold, margin, opcf, fcf, final) ==
    /\ gold_price_gbp # Unset => QEq(W, Val(gold_price_gbp), QInt(gold))
    /\ margin_per_oz # Unset => QEq(W, Val(margin_per_oz), QInt(margin))
    /\ operating_cf # Unset => QEq(W, Val(operating_cf), QInt(opcf))
    /\ annual_fcf # Unset => QEq(W, Val(annual_fcf), QInt(fcf))
    /\ \A t \in 1..Len(fcf_list) :
          QEq(W, fcf_list[t], QInt(IF t = 5 THEN final ELSE fcf))
    /\ equity_value_gbp # Unset =>
          /\ Len(discounted_list) = 5
          /\ QEq(W, Val(equity_value_gbp),
                 QAdd(W, QAdd(W, QAdd(W, QAdd(W, discounted_list[1], discounted_list[2]),
                                      discounted_list[3]), discounted_list[4]),
                      discounted_list[5]))
    /\ value_per_share_gbp # Unset =>
          QEq(W, QMul(Val(value_per_share_gbp), QInt(670750)), Val(equity_value_gbp))

\* C3 as stated: gold_price_local 3,160, margin 1,160, operating_cf 580,000,000,
\* annual_fcf 340,000,000 every year, year-5 total 1,700,000,000, equity value the sum
\* of the five discounted values, value per share equity / 670,750,000.
C3_ScenarioAsStated ==
    Scenario5 => Scenario5Gives(3160, 1160, 580000, 340000, 1700000)

\* C3 amended: the AISC is converted to GBP as the gold price is (2000 * 0.79 = 1,580),
\* so margin is 1,580, operating_cf 790,000,000, annual_fcf 550,000,000 every year and
\* the year-5 total 550,000,000 + 550,000,000 * 4 = 2,750,000,000; equity value is the
\* sum of the five discounted values and value per share is equity / 670,750,000.
C3_ScenarioAmended ==
    Scenario5 => Scenario5Gives(3160, 1580, 790000, 550000, 2750000)

C3_Witness ==
    /\ Scenario5 /\ pc = "done"
    /\ Len(fcf_list) = 5 /\ value_per_share_gbp # Unset

(***************************************************************************)
(* C4.  In the sensitivity grid value per share never decreases from one   *)
(* gold price option to the next higher one at the same starting           *)
(* production, nor from one production option to the next higher one at    *)
(* the same gold price; so neither do the displayed, rounded values.       *)
(***************************************************************************)
C4_GridMonotone ==
    /\ \A c \in DOMAIN cell_vps :
          /\ <<c[1] + 1, c[2]>> \in DOMAIN cell_vps =>
                /\ gold_options[c[1]] <= gold_options[c[1] + 1]
                /\ QLe(W, cell_vps[c], cell_vps[<<c[1] + 1, c[2]>>])
          /\ <<c[1], c[2] + 1>> \in DOMAIN cell_vps =>
                /\ prod_options[c[2]] <= prod_options[c[2] + 1]
                /\ QLe(W, cell_vps[c], cell_vps[<<c[1], c[2] + 1>>])
    /\ \A r \in 1..Len(sens_rows) :
          /\ \A k \in 1..(Len(sens_rows[r].vals) - 1) :
                sens_rows[r].vals[k] <= sens_rows[r].vals[k + 1]
          /\ r < Len(sens_rows) =>
                \A k \in 1..Len(sens_rows[r].vals) :
                    sens_rows[r].vals[k] <= sens_rows[r + 1].vals[k]

C4_Witness ==
    /\ variant = "v20" /\ pc = "done"
    /\ Cardinality(DOMAIN cell_vps) = Len(gold_options) * Len(prod_options)
    /\ QLt(W, cell_vps[<<1, 1>>], cell_vps[<<2, 1>>])
    /\ QLt(W, cell_vps[<<1, 1>>], cell_vps[<<1, 2>>])
    /\ Len(sens_rows) = Len(gold_options)

(***************************************************************************)
(* C7.  In the 10- and 20-year main runs and in every grid cell, equity    *)
(* value is enterprise value (the sum of all years' present values) plus   *)
(* cash_balance minus deferred_liability, and value per share is equity    *)
(* value divided by shares_outstanding; this holds of negative values as   *)
(* of positive ones.                                                       *)
(***************************************************************************)
EquityOf(ps) ==
    QSub(W, QAdd(W, QSum(W, ps), QInt(inp.cash_balance)), QInt(inp.deferred_liability))

C7_EquityAndPerShare ==
    /\ (variant \in {"v10", "v20"} /\ equity_value # Unset) =>
          /\ QEq(W, Val(enterprise_value), QSum(W, pvs))
          /\ QEq(W, Val(equity_value), EquityOf(pvs))
    /\ (variant \in {"v10", "v20"} /\ value_per_share_aud # Unset) =>
          QEq(W, QMul(Val(value_per_share_aud), QInt(inp.shares_out)), EquityOf(pvs))
    /\ HasCell =>
          QEq(W, QMul(Val(vps_tmp_aud), QInt(inp.shares_out)), EquityOf(alt_pvs))

C7_Witness ==
    /\ variant = "v20" /\ value_per_share_aud # Unset
    /\ QSign(W, Val(equity_value)) < 0
    /\ QSign(W, Val(value_per_share_aud)) < 0
    /\ HasCell /\ QSign(W, Val(vps_tmp_aud)) < 0

(***************************************************************************)
(* C8.  For every year t, fcf[t] is                                        *)
(* (gold_price - aisc[t]) * production[t] - corporate_costs - capex[t]     *)
(* exactly, negative when that is negative, in the main runs and in every  *)
(* grid cell.                                                              *)
(***************************************************************************)
FcfOf(gold, a, p, c) ==
    QSub(W, QSub(W, QMul(QSub(W, QInt(gold), a), p), QInt(inp.corp_costs)), c)

C8_FcfUnclamped ==
    /\ variant \in {"v10", "v20"} =>
          \A t \in 1..Len(fcfs) :
              QEq(W, fcfs[t], FcfOf(inp.gold_price_aud, aiscs[t], productions[t], capexes[t]))
    /\ HasCell =>
          \A t \in 1..Horizon20 :
              QEq(W, alt_fcfs[t], FcfOf(CellGold, aiscs[t], alt_prods[t], capexes[t]))

C8_Witness ==
    /\ variant = "v20" /\ HasCell
    /\ inp.gold_price_aud < inp.aisc_y1
    /\ QSign(W, fcfs[1]) < 0
    /\ QLt(W, QMul(QSub(W, QInt(CellGold), aiscs[1]), alt_prods[1]),
           QAdd(W, QInt(inp.corp_costs), capexes[1]))
    /\ QSign(W, alt_fcfs[1]) < 0

(***************************************************************************)
(* C10.  Each grid cell (gold, prod) is a full run of the 20-year main     *)
(* pipeline with gold_price replaced by gold and production_year1 by prod: *)
(* its per-share value before the display conversion is the main run's     *)
(* value_per_share for those inputs, its production path is the main       *)
(* run's, and the reused AISC and capex series are the ones that run       *)
(* regenerates.  Computing the grid leaves the base series and the base    *)
(* valuation unchanged.                                                    *)
(***************************************************************************)
CellInputs == [inp EXCEPT !.gold_price_aud = CellGold, !.production_y1 = CellProd]

C10_CellEqualsRerun ==
    HasCell =>
        LET rerun == MainPaths20(CellInputs, Horizon20)
        IN  /\ QEq(W, Val(vps_tmp_aud), MainVps20(CellInputs))
            /\ SeqEq(alt_prods, rerun.productions)
            /\ SeqEq(aiscs, rerun.aiscs)
            /\ SeqEq(capexes, rerun.capexes)
            /\ SeqEq(alt_fcfs, rerun.fcfs)

C10_GridCellIsFullRun ==
    /\ []C10_CellEqualsRerun
    /\ [][pc = "grid" => UNCHANGED <<productions, aiscs, capexes, fcfs, pvs, valueVars>>]_vars

C10_Witness ==
    /\ variant = "v20" /\ pc = "done" /\ HasCell
    /\ Cardinality(DOMAIN cell_vps) = Len(gold_options) * Len(prod_options)
    /\ CellGold # inp.gold_price_aud /\ CellProd # inp.production_y1
    /\ ~QEq(W, Val(vps_tmp_aud), Val(value_per_share_aud))


(***************************************************************************)
(* C2.  For every Year-1 AISC in 1500..4000 and improvement in 0..500 the  *)
(* AISC series does not increase over years 1..5, is constant from year 5  *)
(* on, and is never below the floor of 1600, year 1 included.              *)
(***************************************************************************)
AiscFloor == IF variant = "v10" THEN AiscFloor10 ELSE AiscFloor20

C2_AiscNonIncreasingAboveFloor ==
    (variant \in {"v10", "v20"} /\ Accepted(inp)) =>
        \A t \in 1..Len(aiscs) :
            /\ (t <= 4 /\ t + 1 <= Len(aiscs)) => QLe(W, aiscs[t + 1], aiscs[t])
            /\ t >= 5 => QEq(W, aiscs[t], aiscs[5])
            /\ QLe(W, QInt(AiscFloor), aiscs[t])

(***************************************************************************)
(* C6.  Under both capex policies, whenever capex_year1 <=                 *)
(* capex_steady_state the capex series is capex_steady_state in every year *)
(* from year 2 on; when the two are equal it is that value in every year,  *)
(* year 1 included.                                                        *)
(***************************************************************************)
SteadyState == QInt(inp.capex_decline_to)

C6_NoGapCapexFlat ==
    (variant \in {"v10", "v20"} /\ inp.capex_y1 <= inp.capex_decline_to) =>
        /\ \A t \in 2..Len(capexes) : QEq(W, capexes[t], SteadyState)
        /\ inp.capex_y1 = inp.capex_decline_to =>
              \A t \in 1..Len(capexes) : QEq(W, capexes[t], QInt(inp.capex_y1))

C6_Witness ==
    /\ variant = "v20" /\ Len(capexes) = Horizon20
    /\ inp.capex_y1 < inp.capex_decline_to
    /\ QLt(W, capexes[1], capexes[2])

(***************************************************************************)
(* C9.  For every capex_year1 and capex_steady_state in 0..1,000,000,000   *)
(* the capex series is at least capex_steady_state from year 2 on, and     *)
(* equal to it from year 5 on under the proportional-gap policy (10-year)  *)
(* and from year 6 on under the linear policy (20-year).                   *)
(***************************************************************************)
FlatFrom == IF variant = "v10" THEN 5 ELSE 6

C9_AtLeastSteadyThenFlat ==
    \A t \in 2..Len(capexes) :
        /\ QLe(W, SteadyState, capexes[t])
        /\ t >= FlatFrom => QEq(W, capexes[t], SteadyState)

\* the steps of the two policies: under the proportional-gap policy years 2..4 each
\* step down by 33% of the gap between year-1 capex and steady-state capex; under the
\* linear policy year t in 2..5 is capex_year1 - (t-1) * (capex_year1 - steady) / 5
C9_PolicySteps ==
    LET gap == QSub(W, QInt(inp.capex_y1), SteadyState)
    IN  /\ variant = "v10" =>
              \A t \in 2..Min(4, Len(capexes)) :
                  QEq(W, capexes[t], QSub(W, capexes[t - 1], QMul(QDec(33, 2), gap)))
        /\ variant = "v20" =>
              \A t \in 2..Min(5, Len(capexes)) :
                  QEq(W, capexes[t],
                      QSub(W, QInt(inp.capex_y1), QDivInt(QMul(QInt(t - 1), gap), 5)))

Degenerate(i) == i.shares_out = 0 \/ Wn(i) <= 0

=============================================================================
